---- MODULE Spec2Model ----
(***************************************************************************)
(* harperbot-api: the ReAct agent graph (src/src/react_agent), the /react   *)
(* handler (src/routers/react_agent.py) and the chat handler                *)
(* (src/routers/chat.py).                                                   *)
(*                                                                          *)
(* A Python str is modelled as a sequence of one-character strings, so that *)
(* strip, startswith, split and concatenation are computed as Python        *)
(* computes them.                                                           *)
(***************************************************************************)
EXTENDS Integers, Sequences, FiniteSets, TLC

\* ------------------------------------------------------------------ bounds
\* largest max_steps a run is started with
MaxSteps == 2

\* a run's call log is cut off here; no run of the graph as wired gets this far
\* (CallLogWithinCap), so the guard only keeps a miswired graph's state space finite
MaxCalls == 2 * MaxSteps + 4

\* longest message list of a chat request
MaxMessages == 2

\* most lines of a model reply handed to parse_tool_call
MaxLines == 2

\* longest expression handed to calculator
MaxExprLen == 3

\* ------------------------------------------------------------ text literals
\* "Tool:"
TXT_ToolMarker ==
    <<"T","o","o","l",":">>
\* "search_web"
TXT_search_web ==
    <<"s","e","a","r","c","h","_","w","e","b">>
\* "calculator"
TXT_calculator ==
    <<"c","a","l","c","u","l","a","t","o","r">>
\* "get_current_time"
TXT_get_current_time ==
    <<"g","e","t","_","c","u","r","r","e","n","t","_","t","i","m","e">>
\* "weather_lookup"
TXT_weather_lookup ==
    <<"w","e","a","t","h","e","r","_","l","o","o","k","u","p">>
\* ", "
TXT_ListSep ==
    <<","," ">>
\* "Web search not available. Please install tavily-python and set TAVILY_API_KEY. Query was: "
TXT_NotAvailable ==
    <<"W","e","b"," ","s","e","a","r","c","h"," ","n","o","t"," ","a","v","a","i","l","a","b",
      "l","e","."," ","P","l","e","a","s","e"," ","i","n","s","t","a","l","l"," ","t","a","v",
      "i","l","y","-","p","y","t","h","o","n"," ","a","n","d"," ","s","e","t"," ","T","A","V",
      "I","L","Y","_","A","P","I","_","K","E","Y","."," ","Q","u","e","r","y"," ","w","a","s",
      ":"," ">>
\* "Search failed: "
TXT_SearchFailed ==
    <<"S","e","a","r","c","h"," ","f","a","i","l","e","d",":"," ">>
\* "Error: Invalid characters in expression"
TXT_InvalidChars ==
    <<"E","r","r","o","r",":"," ","I","n","v","a","l","i","d"," ","c","h","a","r","a","c","t",
      "e","r","s"," ","i","n"," ","e","x","p","r","e","s","s","i","o","n">>
\* "Calculation error: "
TXT_CalcError ==
    <<"C","a","l","c","u","l","a","t","i","o","n"," ","e","r","r","o","r",":"," ">>
\* "Weather information for "
TXT_WeatherFor ==
    <<"W","e","a","t","h","e","r"," ","i","n","f","o","r","m","a","t","i","o","n"," ","f","o",
      "r"," ">>
\* ": This is a placeholder. In a real implementation, you would integrate with a weather API like OpenWeatherMap."
TXT_WeatherPlaceholder ==
    <<":"," ","T","h","i","s"," ","i","s"," ","a"," ","p","l","a","c","e","h","o","l","d","e",
      "r","."," ","I","n"," ","a"," ","r","e","a","l"," ","i","m","p","l","e","m","e","n","t",
      "a","t","i","o","n",","," ","y","o","u"," ","w","o","u","l","d"," ","i","n","t","e","g",
      "r","a","t","e"," ","w","i","t","h"," ","a"," ","w","e","a","t","h","e","r"," ","A","P",
      "I"," ","l","i","k","e"," ","O","p","e","n","W","e","a","t","h","e","r","M","a","p",".">>
\* " is not a valid tool, try one of ["
TXT_NotValidTool ==
    <<" ","i","s"," ","n","o","t"," ","a"," ","v","a","l","i","d"," ","t","o","o","l",","," ",
      "t","r","y"," ","o","n","e"," ","o","f"," ","[">>
\* "]."
TXT_NotValidToolEnd ==
    <<"]",".">>
\* "Tool result: "
TXT_ToolResult ==
    <<"T","o","o","l"," ","r","e","s","u","l","t",":"," ">>
\* "what is 2+2"
TXT_Query1 ==
    <<"w","h","a","t"," ","i","s"," ","2","+","2">>
\* "weather in Oslo"
TXT_Query2 ==
    <<"w","e","a","t","h","e","r"," ","i","n"," ","O","s","l","o">>
\* "FINAL_ANSWER: 4"
TXT_ReplyDirect ==
    <<"F","I","N","A","L","_","A","N","S","W","E","R",":"," ","4">>
\* "Tool: calculator: 2+2"
TXT_ReplyCalc ==
    <<"T","o","o","l",":"," ","c","a","l","c","u","l","a","t","o","r",":"," ","2","+","2">>
\* "Tool: nope: x"
TXT_ReplyUnknown ==
    <<"T","o","o","l",":"," ","n","o","p","e",":"," ","x">>
\* "The answer is 4"
TXT_ReplyFinal ==
    <<"T","h","e"," ","a","n","s","w","e","r"," ","i","s"," ","4">>
\* "2+2"
TXT_TwoPlusTwo ==
    <<"2","+","2">>
\* "4"
TXT_Four ==
    <<"4">>
\* "nope"
TXT_nope ==
    <<"n","o","p","e">>
\* "invalid syntax"
TXT_SyntaxError ==
    <<"i","n","v","a","l","i","d"," ","s","y","n","t","a","x">>
\* "0123456789+-*/.() "
TXT_AllowedChars ==
    <<"0","1","2","3","4","5","6","7","8","9","+","-","*","/",".","(",")"," ">>

\* "gpt"
TXT_gpt ==
    <<"g","p","t">>
\* "claude"
TXT_claude ==
    <<"c","l","a","u","d","e">>
\* "gpt-4"
TXT_ModelGpt4 ==
    <<"g","p","t","-","4">>
\* "claude-3-sonnet-20240229"
TXT_ModelClaude ==
    <<"c","l","a","u","d","e","-","3","-","s","o","n","n","e","t","-","2","0","2","4","0","2",
      "2","9">>
\* "llama-3"
TXT_ModelLlama ==
    <<"l","l","a","m","a","-","3">>
\* "abcdefghijklmnopqrstuvwxyz"
TXT_Lower ==
    <<"a","b","c","d","e","f","g","h","i","j","k","l","m","n","o","p","q","r","s","t","u","v",
      "w","x","y","z">>
\* "ABCDEFGHIJKLMNOPQRSTUVWXYZ"
TXT_Upper ==
    <<"A","B","C","D","E","F","G","H","I","J","K","L","M","N","O","P","Q","R","S","T","U","V",
      "W","X","Y","Z">>
\* "0123456789"
TXT_Digits ==
    <<"0","1","2","3","4","5","6","7","8","9">>
\* ": "
TXT_ColonSpace ==
    <<":"," ">>
\* "_API_KEY environment variable is not set."
TXT_KeyNotSet ==
    <<"_","A","P","I","_","K","E","Y"," ","e","n","v","i","r","o","n","m","e","n","t"," ","v",
      "a","r","i","a","b","l","e"," ","i","s"," ","n","o","t"," ","s","e","t",".">>
\* "ReAct agent error: "
TXT_ReactError ==
    <<"R","e","A","c","t"," ","a","g","e","n","t"," ","e","r","r","o","r",":"," ">>
\* "Unsupported model: "
TXT_Unsupported ==
    <<"U","n","s","u","p","p","o","r","t","e","d"," ","m","o","d","e","l",":"," ">>
\* "You are a helpful AI assistant that can reason about questions and use tools to find answers.\n\nAvailable tools: "
TXT_SystemPrompt1 ==
    <<"Y","o","u"," ","a","r","e"," ","a"," ","h","e","l","p","f","u","l"," ","A","I"," ","a",
      "s","s","i","s","t","a","n","t"," ","t","h","a","t"," ","c","a","n"," ","r","e","a","s",
      "o","n"," ","a","b","o","u","t"," ","q","u","e","s","t","i","o","n","s"," ","a","n","d",
      " ","u","s","e"," ","t","o","o","l","s"," ","t","o"," ","f","i","n","d"," ","a","n","s",
      "w","e","r","s",".","\n","\n","A","v","a","i","l","a","b","l","e"," ","t","o","o","l","s",
      ":"," ">>
\* "\n\nThink step by step about what you need to do to answer the user's question. You can use tools if needed.\n\nUser question: "
TXT_SystemPrompt2 ==
    <<"\n","\n","T","h","i","n","k"," ","s","t","e","p"," ","b","y"," ","s","t","e","p"," ","a",
      "b","o","u","t"," ","w","h","a","t"," ","y","o","u"," ","n","e","e","d"," ","t","o"," ",
      "d","o"," ","t","o"," ","a","n","s","w","e","r"," ","t","h","e"," ","u","s","e","r","'",
      "s"," ","q","u","e","s","t","i","o","n","."," ","Y","o","u"," ","c","a","n"," ","u","s",
      "e"," ","t","o","o","l","s"," ","i","f"," ","n","e","e","d","e","d",".","\n","\n","U","s",
      "e","r"," ","q","u","e","s","t","i","o","n",":"," ">>
\* "\n\nPlease provide a clear, helpful answer. If you need to use a tool, mention which one you would use and why."
TXT_SystemPrompt3 ==
    <<"\n","\n","P","l","e","a","s","e"," ","p","r","o","v","i","d","e"," ","a"," ","c","l","e",
      "a","r",","," ","h","e","l","p","f","u","l"," ","a","n","s","w","e","r","."," ","I","f",
      " ","y","o","u"," ","n","e","e","d"," ","t","o"," ","u","s","e"," ","a"," ","t","o","o",
      "l",","," ","m","e","n","t","i","o","n"," ","w","h","i","c","h"," ","o","n","e"," ","y",
      "o","u"," ","w","o","u","l","d"," ","u","s","e"," ","a","n","d"," ","w","h","y",".">>
\* "Request timed out."
TXT_TimedOut ==
    <<"R","e","q","u","e","s","t"," ","t","i","m","e","d"," ","o","u","t",".">>
\* "OPENAI_API_KEY environment variable is not set. Please set it in your .env file or environment."
TXT_OpenAIKeyNotSet ==
    <<"O","P","E","N","A","I","_","A","P","I","_","K","E","Y"," ","e","n","v","i","r","o","n",
      "m","e","n","t"," ","v","a","r","i","a","b","l","e"," ","i","s"," ","n","o","t"," ","s",
      "e","t","."," ","P","l","e","a","s","e"," ","s","e","t"," ","i","t"," ","i","n"," ","y",
      "o","u","r"," ",".","e","n","v"," ","f","i","l","e"," ","o","r"," ","e","n","v","i","r",
      "o","n","m","e","n","t",".">>
\* "At least one message is required"
TXT_NeedMessage ==
    <<"A","t"," ","l","e","a","s","t"," ","o","n","e"," ","m","e","s","s","a","g","e"," ","i",
      "s"," ","r","e","q","u","i","r","e","d">>
\* "At least one user message is required"
TXT_NeedUserMessage ==
    <<"A","t"," ","l","e","a","s","t"," ","o","n","e"," ","u","s","e","r"," ","m","e","s","s",
      "a","g","e"," ","i","s"," ","r","e","q","u","i","r","e","d">>
\* "Both GPT-5 responses API and GPT-4 fallback failed. GPT-5 error: "
TXT_BothFailed ==
    <<"B","o","t","h"," ","G","P","T","-","5"," ","r","e","s","p","o","n","s","e","s"," ","A",
      "P","I"," ","a","n","d"," ","G","P","T","-","4"," ","f","a","l","l","b","a","c","k"," ",
      "f","a","i","l","e","d","."," ","G","P","T","-","5"," ","e","r","r","o","r",":"," ">>
\* ", Fallback error: "
TXT_FallbackError ==
    <<","," ","F","a","l","l","b","a","c","k"," ","e","r","r","o","r",":"," ">>
\* "OpenAI API authentication failed. Please check your API key."
TXT_AuthFailed ==
    <<"O","p","e","n","A","I"," ","A","P","I"," ","a","u","t","h","e","n","t","i","c","a","t",
      "i","o","n"," ","f","a","i","l","e","d","."," ","P","l","e","a","s","e"," ","c","h","e",
      "c","k"," ","y","o","u","r"," ","A","P","I"," ","k","e","y",".">>
\* "OpenAI API rate limit exceeded. Please try again later."
TXT_RateLimited ==
    <<"O","p","e","n","A","I"," ","A","P","I"," ","r","a","t","e"," ","l","i","m","i","t"," ",
      "e","x","c","e","e","d","e","d","."," ","P","l","e","a","s","e"," ","t","r","y"," ","a",
      "g","a","i","n"," ","l","a","t","e","r",".">>
\* "OpenAI API error: "
TXT_APIError ==
    <<"O","p","e","n","A","I"," ","A","P","I"," ","e","r","r","o","r",":"," ">>
\* "Internal server error: "
TXT_InternalError ==
    <<"I","n","t","e","r","n","a","l"," ","s","e","r","v","e","r"," ","e","r","r","o","r",":",
      " ">>
\* "Incorrect API key provided"
TXT_MsgAuth ==
    <<"I","n","c","o","r","r","e","c","t"," ","A","P","I"," ","k","e","y"," ","p","r","o","v",
      "i","d","e","d">>
\* "Rate limit reached"
TXT_MsgRate ==
    <<"R","a","t","e"," ","l","i","m","i","t"," ","r","e","a","c","h","e","d">>
\* "Connection error."
TXT_MsgAPI ==
    <<"C","o","n","n","e","c","t","i","o","n"," ","e","r","r","o","r",".">>
\* "'Response' object has no attribute 'answer'"
TXT_MsgAttr ==
    <<"'","R","e","s","p","o","n","s","e","'"," ","o","b","j","e","c","t"," ","h","a","s"," ",
      "n","o"," ","a","t","t","r","i","b","u","t","e"," ","'","a","n","s","w","e","r","'">>
\* "hello"
TXT_Hello ==
    <<"h","e","l","l","o">>
\* "2+2?"
TXT_Question ==
    <<"2","+","2","?">>
\* "four"
TXT_ChatReply5 ==
    <<"f","o","u","r">>
\* "it is 4"
TXT_ChatReply4 ==
    <<"i","t"," ","i","s"," ","4">>

\* "Tool: search_web: a: b"
TXT_LineSearch ==
    <<"T","o","o","l",":"," ","s","e","a","r","c","h","_","w","e","b",":"," ","a",":"," ","b">>
\* "Tool: calculator"
TXT_LineToolOnly ==
    <<"T","o","o","l",":"," ","c","a","l","c","u","l","a","t","o","r">>
\* "Args: 2+2"
TXT_LineArgs ==
    <<"A","r","g","s",":"," ","2","+","2">>
\* "  Tool: weather_lookup: Oslo "
TXT_LineIndented ==
    <<" "," ","T","o","o","l",":"," ","w","e","a","t","h","e","r","_","l","o","o","k","u","p",
      ":"," ","O","s","l","o"," ">>
\* "I should add them"
TXT_LineThought ==
    <<"I"," ","s","h","o","u","l","d"," ","a","d","d"," ","t","h","e","m">>
\* "Use Tool: calculator: 2+2"
TXT_LineMidTool ==
    <<"U","s","e"," ","T","o","o","l",":"," ","c","a","l","c","u","l","a","t","o","r",":"," ",
      "2","+","2">>
\* "a: b"
TXT_AColonB ==
    <<"a",":"," ","b">>
\* "Oslo"
TXT_Oslo ==
    <<"O","s","l","o">>
\* "x"
TXT_x ==
    <<"x">>
\* "2/0"
TXT_TwoOverZero ==
    <<"2","/","0">>
\* "division by zero"
TXT_DivisionByZero ==
    <<"d","i","v","i","s","i","o","n"," ","b","y"," ","z","e","r","o">>

\* "Args: "
TXT_ArgsMarker ==
    <<"A","r","g","s",":"," ">>

\* "FINAL_ANSWER:"
TXT_FinalAnswerMarker ==
    <<"F","I","N","A","L","_","A","N","S","W","E","R",":">>

\* ------------------------------------------------------------ Python str
\* Python's None (no text is a sequence holding a longer string)
None == <<"None">>

Whitespace == {" ", "\t", "\n", "\r"}

\* every Python str of the model
Text == Seq(STRING)

\* The helpers that recurse are functions: their arguments are evaluated once, to a
\* value, before the body is.
lstrip[s \in Text] == IF s # <<>> /\ Head(s) \in Whitespace THEN lstrip[Tail(s)] ELSE s

rstrip[s \in Text] ==
    IF s # <<>> /\ s[Len(s)] \in Whitespace THEN rstrip[SubSeq(s, 1, Len(s) - 1)] ELSE s

\* str.strip()
strip(s) == rstrip[lstrip[s]]

\* str.startswith(prefix)
startswith(s, prefix) == Len(s) >= Len(prefix) /\ SubSeq(s, 1, Len(prefix)) = prefix

\* str.split(sep, maxsplit) for a one-character sep; maxsplit < 0 is "no limit"
split[s \in Text, sep \in STRING, maxsplit \in Int] ==
    LET idx == {i \in 1..Len(s) : s[i] = sep} IN
    IF maxsplit = 0 \/ idx = {} THEN <<s>>
    ELSE LET i == CHOOSE j \in idx : \A k \in idx : j <= k IN
         <<SubSeq(s, 1, i - 1)>> \o split[SubSeq(s, i + 1, Len(s)), sep, maxsplit - 1]

\* sep.join(parts)
join[sep \in Text, parts \in Seq(Text)] ==
    IF parts = <<>> THEN <<>>
    ELSE IF Len(parts) = 1 THEN parts[1]
    ELSE parts[1] \o sep \o join[sep, Tail(parts)]

\* needle in haystack
contains(haystack, needle) ==
    \E i \in 1..(Len(haystack) - Len(needle) + 1) :
        SubSeq(haystack, i, i + Len(needle) - 1) = needle

\* ------------------------------------------------------------ tools.py
\* what the outside world gives a tool: whether the Tavily import succeeded, what the
\* search did, what eval() did, and the clock's reading
ToolEnv ==
    [tavily : {"missing", "raises", "ok"}, eval : {"value", "raises"}, results : {TXT_Four},
     now : {TXT_Four}]

search_web(query, ext) ==
    IF ext.tavily = "missing" THEN TXT_NotAvailable \o query
    ELSE IF ext.tavily = "raises" THEN TXT_SearchFailed \o TXT_SyntaxError
    ELSE ext.results

\* eval(expression), with str() of the value or of the exception: "2+2" is 4 and "2/0"
\* divides by zero; of any other expression eval() either has a value or raises
py_eval(expression, ext) ==
    IF expression = TXT_TwoPlusTwo
    THEN [raised |-> FALSE, type |-> "None", value |-> TXT_Four]
    ELSE IF expression = TXT_TwoOverZero
    THEN [raised |-> TRUE, type |-> "ZeroDivisionError", value |-> TXT_DivisionByZero]
    ELSE IF ext.eval = "raises"
    THEN [raised |-> TRUE, type |-> "SyntaxError", value |-> TXT_SyntaxError]
    ELSE [raised |-> FALSE, type |-> "None", value |-> ext.results]

\* the classes "except Exception" catches among those eval() raises
ExceptionClasses == {"SyntaxError", "ZeroDivisionError"}

\* calculator handing the expression to eval() without looking at its characters
calculator_run_unchecked(expression, ext) ==
    LET result == py_eval(expression, ext)
        evals == <<[expression |-> expression, raised |-> result.raised]>>
    IN IF ~ result.raised
       THEN [result |-> result.value, evals |-> evals, raised |-> FALSE]
       ELSE IF result.type \in ExceptionClasses
       THEN [result |-> TXT_CalcError \o result.value, evals |-> evals, raised |-> FALSE]
       ELSE [result |-> None, evals |-> evals, raised |-> TRUE]

\* a call of calculator: what it returned, the calls of eval() it made, and whether an
\* exception left it
calculator_run(expression, ext) ==
    LET allowed_chars == {TXT_AllowedChars[i] : i \in 1..Len(TXT_AllowedChars)} IN
    IF ~ \A i \in 1..Len(expression) : expression[i] \in allowed_chars
    THEN [result |-> TXT_InvalidChars, evals |-> <<>>, raised |-> FALSE]
    ELSE LET result == py_eval(expression, ext)
             evals == <<[expression |-> expression, raised |-> result.raised]>>
         IN IF ~ result.raised
            THEN [result |-> result.value, evals |-> evals, raised |-> FALSE]
            ELSE IF result.type \in ExceptionClasses
            THEN [result |-> TXT_CalcError \o result.value, evals |-> evals, raised |-> FALSE]
            ELSE [result |-> None, evals |-> evals, raised |-> TRUE]

calculator(expression, ext) == calculator_run(expression, ext).result

get_current_time(ext) == ext.now

weather_lookup(city) == TXT_WeatherFor \o city \o TXT_WeatherPlaceholder

\* the names of get_tools(), in its order
get_tools == <<TXT_search_web, TXT_calculator, TXT_get_current_time, TXT_weather_lookup>>

\* ------------------------------------------------------------ graph.py
\* ToolExecutor(get_tools()).invoke({"tool": ..., "tool_input": ...}): the tool of that
\* name is run on the input; a name that is no tool is answered with the executor's
\* "not a valid tool" text
tool_executor_invoke(tool, tool_input, ext) ==
    IF tool = TXT_search_web THEN search_web(tool_input, ext)
    ELSE IF tool = TXT_calculator THEN calculator(tool_input, ext)
    ELSE IF tool = TXT_get_current_time THEN get_current_time(ext)
    ELSE IF tool = TXT_weather_lookup THEN weather_lookup(tool_input)
    ELSE tool \o TXT_NotValidTool \o join[TXT_ListSep, get_tools] \o TXT_NotValidToolEnd

\* the first line, in order, whose stripped form starts with "Tool:" and which splits
\* into three parts decides; a "Tool:" line with fewer parts is passed over
parse_lines[lines \in Seq(Text)] ==
    IF lines = <<>> THEN <<None, None>>
    ELSE LET line == Head(lines)
             parts == split[line, ":", 2]
         IN IF startswith(strip(line), TXT_ToolMarker) /\ Len(parts) >= 3
            THEN <<strip(parts[2]), strip(parts[3])>>
            ELSE parse_lines[Tail(lines)]

\* the parser splitting the line at every colon
parse_lines_every_colon[lines \in Seq(Text)] ==
    IF lines = <<>> THEN <<None, None>>
    ELSE LET line == Head(lines)
             parts == split[line, ":", 0 - 1]
         IN IF startswith(strip(line), TXT_ToolMarker) /\ Len(parts) >= 3
            THEN <<strip(parts[2]), strip(parts[3])>>
            ELSE parse_lines_every_colon[Tail(lines)]

parse_tool_call_every_colon(content) == parse_lines_every_colon[split[content, "\n", 0 - 1]]

parse_tool_call(content) == parse_lines[split[content, "\n", 0 - 1]]

AIMessage(content) == [type |-> "ai", content |-> content]
HumanMessage(content) == [type |-> "human", content |-> content]

\* a node's returned dict written over the state's keys
merge(state, update) ==
    [k \in DOMAIN state |-> IF k \in DOMAIN update THEN update[k] ELSE state[k]]

\* _reason returning current_step as it found it
reason_node_no_increment(state, content) ==
    [messages |-> Append(state.messages, AIMessage(content)),
     current_step |-> state.current_step]

\* _reason taking a reply that starts with the prompt's "FINAL_ANSWER:" as the answer
reason_node_answers(state, content) ==
    IF startswith(content, TXT_FinalAnswerMarker)
    THEN [messages |-> Append(state.messages, AIMessage(content)),
          current_step |-> state.current_step + 1,
          final_answer |-> content]
    ELSE [messages |-> Append(state.messages, AIMessage(content)),
          current_step |-> state.current_step + 1]

\* _reason, given the text llm.invoke returned
reason_node(state, content) ==
    [messages |-> Append(state.messages, AIMessage(content)),
     current_step |-> state.current_step + 1]

\* Python truthiness of the parsed tool name: None and "" are false
truthy(tool_name) == tool_name # None /\ tool_name # <<>>

registered(tool) == \E i \in 1..Len(get_tools) : get_tools[i] = tool

\* _act looking the tool up itself and passing over a name it does not find
act_node_unknown_dropped(state, ext) ==
    LET call == parse_tool_call(state.messages[Len(state.messages)].content)
        tool_name == call[1]
        tool_args == call[2]
    IN IF truthy(tool_name) /\ registered(tool_name)
       THEN LET result == tool_executor_invoke(tool_name, tool_args, ext) IN
            [messages |-> Append(state.messages, HumanMessage(TXT_ToolResult \o result)),
             tool_results |-> Append(state.tool_results,
                 [tool |-> tool_name, input |-> tool_args, output |-> result])]
       ELSE [messages |-> state.messages, tool_results |-> state.tool_results]

\* _act writing the observation over the entry that asked for the tool
act_node_overwrites(state, ext) ==
    LET call == parse_tool_call(state.messages[Len(state.messages)].content)
        tool_name == call[1]
        tool_args == call[2]
    IN IF truthy(tool_name)
       THEN LET result == tool_executor_invoke(tool_name, tool_args, ext) IN
            [messages |-> [state.messages EXCEPT ![Len(state.messages)] =
                               HumanMessage(TXT_ToolResult \o result)],
             tool_results |-> Append(state.tool_results,
                 [tool |-> tool_name, input |-> tool_args, output |-> result])]
       ELSE [messages |-> state.messages, tool_results |-> state.tool_results]

\* _act
act_node(state, ext) ==
    LET call == parse_tool_call(state.messages[Len(state.messages)].content)
        tool_name == call[1]
        tool_args == call[2]
    IN IF truthy(tool_name)
       THEN LET result == tool_executor_invoke(tool_name, tool_args, ext) IN
            [messages |-> Append(state.messages, HumanMessage(TXT_ToolResult \o result)),
             tool_results |-> Append(state.tool_results,
                 [tool |-> tool_name, input |-> tool_args, output |-> result])]
       ELSE [messages |-> state.messages, tool_results |-> state.tool_results]

\* the decision node counting the step itself
should_continue_node_counts(state) == [state EXCEPT !.current_step = @ + 1]

should_continue_node(state) == state

\* _final_answer, given the text llm.invoke returned
final_answer_node(state, content) == [final_answer |-> content]

\* the prompts handed to llm.invoke: the template and the values formatted into it
reasoning_prompt(state) ==
    [template |-> "reasoning", messages |-> state.messages,
     current_step |-> state.current_step, max_steps |-> state.max_steps,
     tool_results |-> <<>>]

final_answer_prompt(state) ==
    [template |-> "final_answer", messages |-> state.messages,
     current_step |-> 0, max_steps |-> 0, tool_results |-> state.tool_results]

\* the graph's wiring
entry_point == "reason"

\* the conditional edge out of should_continue
should_continue_edge(x) ==
    IF x.current_step < x.max_steps THEN "reason" ELSE "final_answer"

edge(node, state) ==
    CASE node = "reason" -> "act"
      [] node = "act" -> "should_continue"
      [] node = "should_continue" -> should_continue_edge(state)
      [] node = "final_answer" -> "END"

\* ------------------------------------------------------------ exceptions
HTTPException(status_code, detail) ==
    [type |-> "HTTPException", status_code |-> status_code, detail |-> detail]

\* an exception of another class whose str() is message
Raised(type, message) == [type |-> type, status_code |-> 0, detail |-> message]

\* str() of a non-negative int
str_int[n \in Nat] ==
    IF n < 10 THEN <<TXT_Digits[n + 1]>>
    ELSE str_int[n \div 10] \o <<TXT_Digits[(n % 10) + 1]>>

\* str(e): an HTTPException prints as "<status_code>: <detail>"
str_exc(e) ==
    IF e.type = "HTTPException" THEN str_int[e.status_code] \o TXT_ColonSpace \o e.detail
    ELSE e.detail

\* the response sent for an HTTPException that leaves the handler
error_response(e) == [status_code |-> e.status_code, body |-> [detail |-> e.detail]]

\* no exception
NoError == Raised("None", <<>>)

\* ------------------------------------------------------------ state
Runs == {1, 2}

Query(r) == IF r = 1 THEN TXT_Query1 ELSE TXT_Query2

\* what the model may answer in REASON, and in FINAL_ANSWER
ReasonReplies == {TXT_ReplyDirect, TXT_ReplyCalc, TXT_ReplyUnknown}
FinalReplies == {TXT_ReplyFinal}

VARIABLES
    state,      \* run -> AgentState
    pc,         \* run -> the node to run next, "END", or "raised"
    calls,      \* run -> the llm.invoke and tool_executor.invoke calls made, in order
    react,      \* the /react request being handled
    chat,       \* the chat request being handled
    parsed,     \* a model reply handed to parse_tool_call and to ACT
    calc        \* an expression handed to calculator

vars == <<state, pc, calls, react, chat, parsed, calc>>

\* the state a run is invoked with
initial_state(query, max_steps) ==
    [messages |-> <<HumanMessage(query)>>, current_step |-> 0, max_steps |-> max_steps,
     tool_results |-> <<>>, final_answer |-> None]

\* no response sent yet
NoResponse == [status_code |-> 0, body |-> [detail |-> <<>>]]

\* no request of that kind is being handled
IdleReact ==
    [pc |-> "idle", env |-> [OPENAI_API_KEY |-> FALSE, ANTHROPIC_API_KEY |-> FALSE],
     request |-> [query |-> <<>>, model |-> <<>>, max_iterations |-> 0],
     calls |-> <<>>, response |-> NoResponse]

IdleChat ==
    [pc |-> "idle", env |-> [OPENAI_API_KEY |-> FALSE], request |-> [messages |-> <<>>],
     user_input |-> <<>>, gpt5_error |-> NoError, calls |-> <<>>, response |-> NoResponse]

\* no reply is being parsed, no expression calculated
IdleParsed ==
    [pc |-> "idle", content |-> <<>>, call |-> <<None, None>>,
     state |-> initial_state(<<>>, 0)]

IdleCalc == [pc |-> "idle", expression |-> <<>>, result |-> None, evals |-> <<>>, raised |-> FALSE]

\* two runs of the graph, each started on its own query with some max_steps
GraphInit ==
    /\ state \in {f \in [Runs -> {initial_state(Query(r), n) : r \in Runs, n \in (0 - 1)..MaxSteps}] :
                    \A r \in Runs : f[r].messages[1].content = Query(r)}
    /\ pc = [r \in Runs |-> entry_point]
    /\ calls = [r \in Runs |-> <<>>]

Init ==
    /\ GraphInit
    /\ react = IdleReact
    /\ chat = IdleChat
    /\ parsed = IdleParsed
    /\ calc = IdleCalc

llm_call(node, prompt, ok) == [kind |-> "llm", node |-> node, prompt |-> prompt, ok |-> ok]

\* REASON calling the model again when the call raised
Reason_retry(r) ==
    /\ pc[r] = "reason"
    /\ Len(calls[r]) < MaxCalls
    /\ \/ \E content \in ReasonReplies :
            /\ state' = [state EXCEPT ![r] = merge(@, reason_node(@, content))]
            /\ pc' = [pc EXCEPT ![r] = edge("reason", state'[r])]
            /\ calls' = [calls EXCEPT ![r] = Append(@, llm_call("reason", reasoning_prompt(state[r]), TRUE))]
       \/ /\ calls' = [calls EXCEPT ![r] = Append(@, llm_call("reason", reasoning_prompt(state[r]), FALSE))]
          /\ UNCHANGED <<state, pc>>
    /\ UNCHANGED <<react, chat, parsed, calc>>

\* REASON: llm.invoke returns a text, or raises
Reason(r) ==
    /\ pc[r] = "reason"
    /\ Len(calls[r]) < MaxCalls
    /\ \/ \E content \in ReasonReplies :
            /\ state' = [state EXCEPT ![r] = merge(@, reason_node(@, content))]
            /\ pc' = [pc EXCEPT ![r] = edge("reason", state'[r])]
            /\ calls' = [calls EXCEPT ![r] = Append(@, llm_call("reason", reasoning_prompt(state[r]), TRUE))]
       \/ /\ pc' = [pc EXCEPT ![r] = "raised"]
          /\ calls' = [calls EXCEPT ![r] = Append(@, llm_call("reason", reasoning_prompt(state[r]), FALSE))]
          /\ UNCHANGED state
    /\ UNCHANGED <<react, chat, parsed, calc>>

\* ACT with tool_results kept in one list that every run appends to
Act_shared(r) ==
    /\ pc[r] = "act"
    /\ \E ext \in ToolEnv : \E update \in {act_node(state[r], ext)} :
         /\ state' = [s \in Runs |->
                IF s = r THEN merge(state[s], update)
                ELSE [state[s] EXCEPT !.tool_results = update.tool_results]]
         /\ pc' = [pc EXCEPT ![r] = edge("act", state'[r])]
         /\ calls' = [calls EXCEPT ![r] =
                IF Len(state'[r].tool_results) > Len(state[r].tool_results)
                THEN Append(@, [kind |-> "tool",
                                tool |-> state'[r].tool_results[Len(state'[r].tool_results)].tool])
                ELSE @]
    /\ UNCHANGED <<react, chat, parsed, calc>>

Act(r) ==
    /\ pc[r] = "act"
    /\ \E ext \in ToolEnv : \E update \in {act_node(state[r], ext)} :
         /\ state' = [state EXCEPT ![r] = merge(@, update)]
         /\ pc' = [pc EXCEPT ![r] = edge("act", state'[r])]
         /\ calls' = [calls EXCEPT ![r] =
                IF Len(state'[r].tool_results) > Len(state[r].tool_results)
                THEN Append(@, [kind |-> "tool",
                                tool |-> state'[r].tool_results[Len(state'[r].tool_results)].tool])
                ELSE @]
    /\ UNCHANGED <<react, chat, parsed, calc>>

Decide(r) ==
    /\ pc[r] = "should_continue"
    /\ state' = [state EXCEPT ![r] = merge(@, should_continue_node(@))]
    /\ pc' = [pc EXCEPT ![r] = edge("should_continue", state'[r])]
    /\ UNCHANGED <<calls, react, chat, parsed, calc>>

FinalAnswer(r) ==
    /\ pc[r] = "final_answer"
    /\ Len(calls[r]) < MaxCalls
    /\ \/ \E content \in FinalReplies :
            /\ state' = [state EXCEPT ![r] = merge(@, final_answer_node(@, content))]
            /\ pc' = [pc EXCEPT ![r] = edge("final_answer", state'[r])]
            /\ calls' = [calls EXCEPT ![r] = Append(@, llm_call("final_answer", final_answer_prompt(state[r]), TRUE))]
       \/ /\ pc' = [pc EXCEPT ![r] = "raised"]
          /\ calls' = [calls EXCEPT ![r] = Append(@, llm_call("final_answer", final_answer_prompt(state[r]), FALSE))]
          /\ UNCHANGED state
    /\ UNCHANGED <<react, chat, parsed, calc>>

\* parse_tool_call(content)
ParseToolCall ==
    /\ parsed.pc = "start"
    /\ parsed' = [parsed EXCEPT !.pc = "parsed", !.call = parse_tool_call(parsed.content)]
    /\ UNCHANGED <<state, pc, calls, react, chat, calc>>

\* REASON answered with content on the first step of a run, and ACT on what it left
ActOnReply ==
    /\ parsed.pc = "parsed"
    /\ \E ext \in ToolEnv :
         \E reasoned \in {merge(parsed.state, reason_node(parsed.state, parsed.content))} :
         \E update \in {act_node(reasoned, ext)} :
            parsed' = [parsed EXCEPT !.pc = "done", !.state = merge(reasoned, update)]
    /\ UNCHANGED <<state, pc, calls, react, chat, calc>>

\* calculator(expression)
CalcCall ==
    /\ calc.pc = "start"
    /\ \E ext \in ToolEnv : \E run \in {calculator_run(calc.expression, ext)} :
         calc' = [calc EXCEPT !.pc = "done", !.result = run.result, !.evals = run.evals,
                              !.raised = run.raised]
    /\ UNCHANGED <<state, pc, calls, react, chat, parsed>>

\* ------------------------------------------------------------ routers/react_agent.py
\* str.upper()
upper(s) ==
    [i \in 1..Len(s) |->
        IF \E k \in 1..Len(TXT_Lower) : TXT_Lower[k] = s[i]
        THEN TXT_Upper[CHOOSE k \in 1..Len(TXT_Lower) : TXT_Lower[k] = s[i]]
        ELSE s[i]]

\* the client the model name selects, or the ValueError
select_llm(model) ==
    IF startswith(model, TXT_gpt) THEN "ChatOpenAI"
    ELSE IF startswith(model, TXT_claude) THEN "ChatAnthropic"
    ELSE "ValueError"

system_prompt(query) ==
    TXT_SystemPrompt1 \o join[TXT_ListSep, get_tools] \o TXT_SystemPrompt2 \o query
        \o TXT_SystemPrompt3

\* what create_simple_react_agent returns, given the text llm.invoke returned
create_simple_react_agent(query, model, max_iterations, content) ==
    [answer |-> content, reasoning_steps |-> <<content>>, tools_used |-> <<>>]

\* the handler's "Validate API key"
api_key(request, env) ==
    IF startswith(request.model, TXT_gpt) THEN env.OPENAI_API_KEY ELSE env.ANTHROPIC_API_KEY

\* the handler's except clause
react_except(e) == HTTPException(500, TXT_ReactError \o str_exc(e))

\* what the model may answer the handler's one call, and how the call may fail
HandlerReplies == {TXT_ReplyDirect, TXT_ReplyCalc}
LlmErrors == {Raised("APITimeoutError", TXT_TimedOut)}

\* the handler up to llm.invoke: the key check, then the choice of client
ReactEnter ==
    /\ react.pc = "start"
    /\ react' =
         IF ~ api_key(react.request, react.env)
         THEN [react EXCEPT !.pc = "done", !.response = error_response(react_except(
                   HTTPException(500, upper(react.request.model) \o TXT_KeyNotSet)))]
         ELSE IF select_llm(react.request.model) = "ValueError"
         THEN [react EXCEPT !.pc = "done", !.response = error_response(react_except(
                   Raised("ValueError", TXT_Unsupported \o react.request.model)))]
         ELSE [react EXCEPT !.pc = "invoke"]
    /\ UNCHANGED <<state, pc, calls, chat, parsed, calc>>

\* llm.invoke(messages) and the rest of the handler
ReactInvoke ==
    /\ react.pc = "invoke"
    /\ LET messages == <<HumanMessage(system_prompt(react.request.query))>>
           call(ok) == [kind |-> "llm", llm |-> select_llm(react.request.model),
                        messages |-> messages, ok |-> ok]
       IN \/ \E content \in HandlerReplies :
               react' = [react EXCEPT
                   !.pc = "done",
                   !.calls = Append(@, call(TRUE)),
                   !.response = [status_code |-> 200,
                                 body |-> create_simple_react_agent(react.request.query,
                                     react.request.model, react.request.max_iterations, content)]]
          \/ \E e \in LlmErrors :
               react' = [react EXCEPT
                   !.pc = "done",
                   !.calls = Append(@, call(FALSE)),
                   !.response = error_response(react_except(e))]
    /\ UNCHANGED <<state, pc, calls, chat, parsed, calc>>

\* ------------------------------------------------------------ routers/chat.py
Message(role, content) == [role |-> role, content |-> content]

IsUser(msg) == msg.role = "user"

\* [msg.content for msg in request.messages if msg.role == "user"]
user_messages(messages) ==
    LET users == SelectSeq(messages, IsUser) IN [i \in 1..Len(users) |-> users[i].content]

\* the except clauses after the handler's body, in their order; AuthenticationError and
\* RateLimitError are APIErrors, and every class is an Exception
chat_except(e) ==
    IF e.type = "AuthenticationError" THEN HTTPException(401, TXT_AuthFailed)
    ELSE IF e.type = "RateLimitError" THEN HTTPException(429, TXT_RateLimited)
    ELSE IF e.type = "APIError" THEN HTTPException(500, TXT_APIError \o str_exc(e))
    ELSE HTTPException(500, TXT_InternalError \o str_exc(e))

\* the detail naming the fallback's failure alone
both_failed_detail_fallback_only(gpt5_error, fallback_error) ==
    TXT_BothFailed \o str_exc(fallback_error) \o TXT_FallbackError \o str_exc(fallback_error)

\* the detail raised when the fallback fails as well
both_failed_detail(gpt5_error, fallback_error) ==
    TXT_BothFailed \o str_exc(gpt5_error) \o TXT_FallbackError \o str_exc(fallback_error)

\* what the provider may answer, and how a call (or reading its result) may fail
ChatReplies == {TXT_ChatReply5, TXT_ChatReply4}
ProviderErrors ==
    {Raised("AuthenticationError", TXT_MsgAuth), Raised("RateLimitError", TXT_MsgRate),
     Raised("APIError", TXT_MsgAPI), Raised("AttributeError", TXT_MsgAttr)}

\* a call of the provider as the handler made it, with what came of it
provider_call(api, model, input, reply, error) ==
    [api |-> api, model |-> model, input |-> input, ok |-> error = NoError,
     reply |-> reply, error |-> error]

\* the handler up to the first provider call: the key check and the two validations
ChatEnter ==
    /\ chat.pc = "start"
    /\ chat' =
         IF ~ chat.env.OPENAI_API_KEY
         THEN [chat EXCEPT !.pc = "done", !.response = error_response(chat_except(
                   HTTPException(500, TXT_OpenAIKeyNotSet)))]
         ELSE IF chat.request.messages = <<>>
         THEN [chat EXCEPT !.pc = "done", !.response = error_response(chat_except(
                   HTTPException(400, TXT_NeedMessage)))]
         ELSE IF user_messages(chat.request.messages) = <<>>
         THEN [chat EXCEPT !.pc = "done", !.response = error_response(chat_except(
                   HTTPException(400, TXT_NeedUserMessage)))]
         ELSE [chat EXCEPT !.pc = "primary",
                   !.user_input = user_messages(chat.request.messages)[
                                      Len(user_messages(chat.request.messages))]]
    /\ UNCHANGED <<state, pc, calls, react, parsed, calc>>

\* client.responses.create(model="gpt-5", ...) and response.answer
ChatPrimary ==
    /\ chat.pc = "primary"
    /\ \/ \E assistant_reply \in ChatReplies :
            chat' = [chat EXCEPT
                !.pc = "done",
                !.calls = Append(@, provider_call("responses", "gpt-5", chat.user_input, assistant_reply, NoError)),
                !.response = [status_code |-> 200, body |-> [response |-> assistant_reply]]]
       \/ \E gpt5_error \in ProviderErrors :
            chat' = [chat EXCEPT
                !.pc = "fallback",
                !.calls = Append(@, provider_call("responses", "gpt-5", chat.user_input, <<>>,
                                                  gpt5_error)),
                !.gpt5_error = gpt5_error]
    /\ UNCHANGED <<state, pc, calls, react, parsed, calc>>

\* client.chat.completions.create(model="gpt-4", ...) in the first call's except clause
ChatFallback ==
    /\ chat.pc = "fallback"
    /\ \/ \E assistant_reply \in ChatReplies :
            chat' = [chat EXCEPT
                !.pc = "done",
                !.calls = Append(@, provider_call("chat.completions", "gpt-4", chat.user_input,
                                                  assistant_reply, NoError)),
                !.response = [status_code |-> 200, body |-> [response |-> assistant_reply]]]
       \/ \E fallback_error \in ProviderErrors :
            chat' = [chat EXCEPT
                !.pc = "done",
                !.calls = Append(@, provider_call("chat.completions", "gpt-4", chat.user_input,
                                                  <<>>, fallback_error)),
                !.response = error_response(chat_except(
                    HTTPException(500, both_failed_detail(chat.gpt5_error, fallback_error))))]
    /\ UNCHANGED <<state, pc, calls, react, parsed, calc>>

\* ------------------------------------------------------------ specifications
Step(r) == Reason(r) \/ Act(r) \/ Decide(r) \/ FinalAnswer(r)

Next == \E r \in Runs : Step(r)

Spec == Init /\ [][Next]_vars

\* one run of the graph on its own, every node of it eventually run: each model and
\* tool call returns
RunInit == Init /\ state[2].max_steps = 0

RunNext == Step(1)

RunSpec == RunInit /\ [][RunNext]_vars /\ WF_vars(Step(1))

\* a /react request, and beside it a run of the graph on the same query and limit
ReactInit ==
    /\ GraphInit
    /\ state[2].max_steps = 0
    /\ react \in [pc : {"start"},
                  env : [OPENAI_API_KEY : BOOLEAN, ANTHROPIC_API_KEY : BOOLEAN],
                  request : [query : {Query(1)},
                             model : {TXT_ModelGpt4, TXT_ModelClaude, TXT_ModelLlama},
                             max_iterations : {state[1].max_steps}],
                  calls : {<<>>}, response : {NoResponse}]
    /\ chat = IdleChat
    /\ parsed = IdleParsed
    /\ calc = IdleCalc

ReactNext == ReactEnter \/ ReactInvoke \/ Step(1)

ReactSpec == ReactInit /\ [][ReactNext]_vars

\* a chat request
Messages == {Message(role, content) : role \in {"user", "assistant"},
                                      content \in {TXT_Hello, TXT_Question}}

ChatInit ==
    /\ GraphInit
    /\ \A r \in Runs : state[r].max_steps = 0
    /\ react = IdleReact
    /\ chat \in [pc : {"start"}, env : [OPENAI_API_KEY : BOOLEAN],
                 request : [messages : UNION {[1..n -> Messages] : n \in 0..MaxMessages}],
                 user_input : {<<>>}, gpt5_error : {NoError}, calls : {<<>>},
                 response : {NoResponse}]
    /\ parsed = IdleParsed
    /\ calc = IdleCalc

ChatNext == ChatEnter \/ ChatPrimary \/ ChatFallback

ChatSpec == ChatInit /\ [][ChatNext]_vars

\* a model reply of up to MaxLines lines, parsed and acted on
Lines ==
    {TXT_ReplyCalc, TXT_ReplyUnknown, TXT_LineSearch, TXT_LineToolOnly, TXT_LineArgs,
     TXT_LineIndented, TXT_LineThought, TXT_LineMidTool}

Contents == {join[<<"\n">>, lines] : lines \in UNION {[1..n -> Lines] : n \in 0..MaxLines}}

ParseInit ==
    /\ GraphInit
    /\ \A r \in Runs : state[r].max_steps = 0
    /\ react = IdleReact
    /\ chat = IdleChat
    /\ parsed \in [pc : {"start"}, content : Contents, call : {<<None, None>>},
                   state : {initial_state(Query(1), 1)}]
    /\ calc = IdleCalc

ParseNext == ParseToolCall \/ ActOnReply

ParseSpec == ParseInit /\ [][ParseNext]_vars

\* an expression of up to MaxExprLen characters, handed to calculator
ExprChars == {"2", "0", "+", "/", "x", " "}

Expressions == UNION {[1..n -> ExprChars] : n \in 0..MaxExprLen}

CalcInit ==
    /\ GraphInit
    /\ \A r \in Runs : state[r].max_steps = 0
    /\ react = IdleReact
    /\ chat = IdleChat
    /\ parsed = IdleParsed
    /\ calc \in [pc : {"start"}, expression : Expressions, result : {None}, evals : {<<>>},
                 raised : {FALSE}]

CalcNext == CalcCall

CalcSpec == CalcInit /\ [][CalcNext]_vars

\* the call-log cap never stops a run
CallLogWithinCap == \A r \in Runs : pc[r] \in {"reason", "final_answer"} => Len(calls[r]) < MaxCalls

\* ------------------------------------------------------------ properties
IsObservation(m) == m.type = "human" /\ startswith(m.content, TXT_ToolResult)

\* an assistant entry that asks for a tool ToolExecutor does not hold
UnknownToolCall(m) ==
    /\ m.type = "ai"
    /\ truthy(parse_tool_call(m.content)[1])
    /\ ~ registered(parse_tool_call(m.content)[1])

Count(seq, P(_)) == Cardinality({i \in 1..Len(seq) : P(seq[i])})

IsPrefix(a, b) == Len(a) <= Len(b) /\ SubSeq(b, 1, Len(a)) = a

\* C1: for max_steps = N >= 0 a run started with current_step = 0 never has
\* current_step > N, and current_step = N whenever it is about to run FINAL_ANSWER.
C1_ExactlyNCycles ==
    \A r \in Runs : state[r].max_steps >= 0 =>
        /\ state[r].current_step <= state[r].max_steps
        /\ (pc[r] = "final_answer" => state[r].current_step = state[r].max_steps)

\* C2: with max_steps = 0 the decision routes to FINAL_ANSWER, no tool is ever executed
\* (tool_results stays empty, no "Tool result: " entry), and the run ends with
\* final_answer set.
C2_ZeroIterationsNoTool ==
    \A r \in Runs : state[r].max_steps = 0 =>
        /\ state[r].tool_results = <<>>
        /\ \A i \in 1..Len(state[r].messages) : ~ IsObservation(state[r].messages[i])
        /\ (pc[r] = "should_continue" => should_continue_edge(state[r]) = "final_answer")
        /\ (pc[r] = "END" => state[r].final_answer # None)

\* C3: every run eventually stops: it reaches the end of FINAL_ANSWER, unless one of its
\* model calls raised (each call returning, a run never cycles forever).
C3_Termination == <>(pc[1] \in {"END", "raised"})

\* a run whose model asked for a tool on every turn, up to the step limit, has ended
C3_Witness ==
    \E r \in Runs :
        /\ pc[r] = "END"
        /\ state[r].max_steps >= 2
        /\ state[r].current_step = state[r].max_steps
        /\ Len(state[r].tool_results) = state[r].current_step

RunView(r) == <<state[r], pc[r], calls[r]>>

\* a step changes what belongs to at most one run
OneRunPerStep ==
    \A r, s \in Runs : r # s => (RunView(r)' = RunView(r) \/ RunView(s)' = RunView(s))

IsAI(m) == m.type = "ai"
IsReasonOk(c) == c.kind = "llm" /\ c.node = "reason" /\ c.ok
IsToolCall(c) == c.kind = "tool"

\* a run's transcript is its own query followed by what its own calls produced, and
\* every prompt it sent was built from its own transcript
OwnTranscript ==
    \A r \in Runs :
        /\ state[r].messages[1] = HumanMessage(Query(r))
        /\ Count(state[r].messages, IsAI) = Count(calls[r], IsReasonOk)
        /\ Count(state[r].messages, IsObservation) = Count(calls[r], IsToolCall)
        /\ Len(state[r].tool_results) = Count(calls[r], IsToolCall)
        /\ \A i \in 1..Len(calls[r]) :
              calls[r][i].kind = "llm" => IsPrefix(calls[r][i].prompt.messages, state[r].messages)

\* C10: in any interleaving of two runs with different queries, no step of one run
\* changes the other run's messages, tool_results, current_step or final_answer, and
\* every entry and every prompt of a run comes from that run's own steps.
C10_Isolation == [][OneRunPerStep]_vars /\ []OwnTranscript

\* both runs are under way, each with a tool result of its own
C10_Witness ==
    /\ pc[1] = "act" /\ Len(state[1].tool_results) = 1
    /\ pc[2] = "should_continue" /\ Len(state[2].tool_results) = 1
    /\ Query(1) # Query(2)

\* a request with no message of role "user" (an empty list is one)
NoUserMessage(messages) == \A i \in 1..Len(messages) : messages[i].role # "user"

\* C4: with the credential present, a chat request with no messages, or with no user
\* message, is answered 400 and no provider call is made for it.
C4_InvalidRequest400 ==
    (chat.pc = "done" /\ chat.env.OPENAI_API_KEY /\ NoUserMessage(chat.request.messages)) =>
        /\ chat.response.status_code = 400
        /\ chat.calls = <<>>

\* C5: a provider call that failed with an authentication error (a rate-limit error) is
\* the request's last provider call, and the request is answered 401 (429).
C5_AuthAndRateLimit ==
    \A i \in 1..Len(chat.calls) :
        LET c == chat.calls[i] IN
        c.error.type \in {"AuthenticationError", "RateLimitError"} =>
            /\ i = Len(chat.calls)
            /\ (chat.pc = "done" =>
                  chat.response.status_code =
                      IF c.error.type = "AuthenticationError" THEN 401 ELSE 429)

\* C6: a chat request calls the primary variant at most once and first, the secondary at
\* most once and only after the primary failed; answered after both failed, the one
\* error response's detail holds both failure messages; answered after a call succeeded,
\* it is 200 with the reply of that call.
C6_TwoTierFallback ==
    LET cs == chat.calls IN
    /\ Len(cs) <= 2
    /\ (Len(cs) >= 1 => cs[1].api = "responses" /\ cs[1].model = "gpt-5")
    /\ (Len(cs) = 2 => cs[2].api = "chat.completions" /\ cs[2].model = "gpt-4" /\ ~ cs[1].ok)
    /\ (chat.pc = "fallback" => Len(cs) = 1 /\ ~ cs[1].ok)
    /\ (chat.pc = "done" /\ cs # <<>>) =>
          IF cs[Len(cs)].ok
          THEN /\ chat.response.status_code = 200
               /\ chat.response.body = [response |-> cs[Len(cs)].reply]
          ELSE /\ Len(cs) = 2
               /\ chat.response.status_code >= 400
               /\ DOMAIN chat.response.body = {"detail"}
               /\ contains(chat.response.body.detail, cs[1].error.detail)
               /\ contains(chat.response.body.detail, cs[2].error.detail)

\* both variants failed, each in its own way, and the request is answered
C6_Witness ==
    /\ chat.pc = "done"
    /\ Len(chat.calls) = 2
    /\ ~ chat.calls[2].ok
    /\ chat.calls[1].error.type = "AuthenticationError"
    /\ chat.calls[2].error.type = "APIError"
    /\ chat.response.status_code = 500

\* C7: a /react request with max_iterations = N >= 0 that is answered 200 has made N
\* reasoning model calls and one final-answer call, and returns the N reasoning texts.
C7_HandlerRunsLoop ==
    (react.pc = "done" /\ react.response.status_code = 200
        /\ react.request.max_iterations >= 0) =>
        /\ Len(react.calls) = react.request.max_iterations + 1
        /\ Len(react.response.body.reasoning_steps) = react.request.max_iterations

IsFailedLlm(c) == c.kind = "llm" /\ ~ c.ok

\* C9: a model call that raised is the last call of its run of the graph, which is then
\* over with final_answer unset, and nothing but such a call ends a run early; a model
\* call that raised in the /react handler is the request's last, and the request is
\* answered 500 with a detail and nothing else (no answer, reasoning_steps, tools_used).
C9_ModelFailureFatal ==
    /\ \A i \in 1..Len(calls[1]) :
          IsFailedLlm(calls[1][i]) =>
              /\ i = Len(calls[1])
              /\ pc[1] = "raised"
              /\ state[1].final_answer = None
    /\ (pc[1] = "raised" => calls[1] # <<>> /\ IsFailedLlm(calls[1][Len(calls[1])]))
    /\ \A i \in 1..Len(react.calls) :
          IsFailedLlm(react.calls[i]) =>
              /\ i = Len(react.calls)
              /\ react.pc = "done"
              /\ react.response.status_code = 500
              /\ DOMAIN react.response.body = {"detail"}
              /\ ~ contains(react.response.body.detail, react.request.query)

\* a run of the graph ended by a model call that raised after a full cycle, and a
\* /react request whose model call raised
C9_Witness ==
    /\ pc[1] = "raised"
    /\ Len(calls[1]) >= 3
    /\ react.pc = "done"
    /\ react.calls # <<>>
    /\ ~ react.calls[1].ok

\* the credential of the model family the model name's prefix selects is set
family_key_set(request, env) ==
    (select_llm(request.model) = "ChatOpenAI" /\ env.OPENAI_API_KEY)
        \/ (select_llm(request.model) = "ChatAnthropic" /\ env.ANTHROPIC_API_KEY)

\* C11: a chat request without the credential, and a /react request without the
\* credential of the family its model name selects, is answered 500 with the "not set"
\* detail and no model call; a /react request whose model name selects no family is
\* answered as an unsupported model, whichever credentials are set.
C11_MissingCredentialFailsFast ==
    /\ (chat.pc = "done" /\ ~ chat.env.OPENAI_API_KEY) =>
          /\ chat.response.status_code = 500
          /\ contains(chat.response.body.detail, TXT_OpenAIKeyNotSet)
          /\ chat.calls = <<>>
    /\ (react.pc = "invoke" => family_key_set(react.request, react.env))
    /\ (react.pc = "done" /\ select_llm(react.request.model) # "ValueError"
            /\ ~ family_key_set(react.request, react.env)) =>
          /\ react.response.status_code = 500
          /\ contains(react.response.body.detail, TXT_KeyNotSet)
          /\ react.calls = <<>>
    /\ (react.pc = "done" /\ select_llm(react.request.model) = "ValueError") =>
          /\ react.response.status_code = 500
          /\ contains(react.response.body.detail, TXT_Unsupported)
          /\ react.calls = <<>>

\* the lines of the reply being parsed, and those whose trimmed form starts with "Tool:"
ReplyLines == split[parsed.content, "\n", 0 - 1]

ToolLines == {i \in 1..Len(ReplyLines) : startswith(strip(ReplyLines[i]), TXT_ToolMarker)}

Colons(line) == {k \in 1..Len(line) : line[k] = ":"}

Min(S) == CHOOSE x \in S : \A y \in S : x <= y

\* the call read off a line: what stands between its first and second colon, and all
\* that follows the second colon, each trimmed
ReadsAs(line, call) ==
    /\ Cardinality(Colons(line)) >= 2
    /\ LET c1 == Min(Colons(line))
           c2 == Min(Colons(line) \ {c1})
       IN call = <<strip(SubSeq(line, c1 + 1, c2 - 1)), strip(SubSeq(line, c2 + 1, Len(line)))>>

FullToolLines == {i \in ToolLines : Cardinality(Colons(ReplyLines[i])) >= 2}

ArithmeticChars ==
    {"0", "1", "2", "3", "4", "5", "6", "7", "8", "9", "+", "-", "*", "/", ".", "(", ")", " "}

\* C13: no exception leaves calculator and it returns a string; for an expression with a
\* character outside the accepted ones it returns the invalid-characters text and eval()
\* is not called; an eval() that raised is answered with the "Calculation error: " text.
C13_CalculatorSafe ==
    /\ {TXT_AllowedChars[i] : i \in 1..Len(TXT_AllowedChars)} = ArithmeticChars
    /\ calc.pc = "done" =>
          /\ ~ calc.raised
          /\ calc.result \in Text
          /\ calc.result # None
          /\ Len(calc.evals) <= 1
          /\ \A i \in 1..Len(calc.evals) :
                /\ \A k \in 1..Len(calc.evals[i].expression) :
                      calc.evals[i].expression[k] \in ArithmeticChars
                /\ calc.evals[i].raised =>
                      /\ startswith(calc.result, TXT_CalcError)
                      /\ Len(calc.result) > Len(TXT_CalcError)
          /\ (\E k \in 1..Len(calc.expression) : calc.expression[k] \notin ArithmeticChars) =>
                /\ calc.result = TXT_InvalidChars
                /\ calc.evals = <<>>

\* calculator has answered an expression that holds a letter
C13_Witness ==
    /\ calc.pc = "done"
    /\ calc.expression = <<"2", "+", "x">>
    /\ calc.result = TXT_InvalidChars
    /\ calc.evals = <<>>

\* calculator has answered an expression whose evaluation raised
C13_EvalRaised ==
    /\ calc.pc = "done"
    /\ calc.expression = TXT_TwoOverZero
    /\ calc.result = TXT_CalcError \o TXT_DivisionByZero

\* the tool call the last entry of a run's transcript asks for
RequestedCall(r) == parse_tool_call(state[r].messages[Len(state[r].messages)].content)

\* what a step may do to tool_results: nothing, unless it is an ACT step on a call of a
\* registered tool, which appends that call's one entry
LedgerStep(r) ==
    LET old == state[r].tool_results
        new == state'[r].tool_results
    IN /\ IsPrefix(old, new)
       /\ IF pc[r] = "act" /\ pc'[r] # "act"
             /\ truthy(RequestedCall(r)[1]) /\ registered(RequestedCall(r)[1])
          THEN /\ Len(new) = Len(old) + 1
               /\ new[Len(new)].tool = RequestedCall(r)[1]
               /\ new[Len(new)].input = RequestedCall(r)[2]
          ELSE new = old

\* C14: tool_results only grows at its end, by one entry per ACT step that ran a
\* registered tool; an ACT step that recognised no tool call, or whose tool name is not
\* registered, and every other step, leaves it as it was.
C14_ToolResultsLedger == [][\A r \in Runs : LedgerStep(r)]_vars

\* C15: a tool call that parse_tool_call returns is read off the first line whose
\* trimmed form starts with "Tool:", also when that line holds no arguments part: its
\* name is that line's second part, and its arguments that line's third part if any.
C15_FirstToolLineOnly ==
    (parsed.pc # "start" /\ parsed.call # <<None, None>>) =>
        /\ ToolLines # {}
        /\ LET parts == split[ReplyLines[Min(ToolLines)], ":", 2] IN
           /\ parsed.call[1] = strip(parts[2])
           /\ Len(parts) = 3 => parsed.call[2] = strip(parts[3])

\* a reply in the format the reasoning prompt asks for: "Tool: tool_name" on one line
\* and "Args: tool_arguments" on the next
PromptFormat(tool_name, tool_arguments) ==
    TXT_ToolMarker \o <<" ">> \o tool_name \o <<"\n">> \o TXT_ArgsMarker \o tool_arguments

\* C16: after ACT on a reply in the prompt's format for a registered tool, tool_results
\* holds the entry of that tool with those arguments, and the transcript ends with the
\* "Tool result: " observation of its output.
C16_PromptFormatRecognised ==
    \A i \in 1..Len(get_tools) : \A tool_arguments \in {TXT_TwoPlusTwo} :
        (parsed.pc = "done" /\ parsed.content = PromptFormat(get_tools[i], tool_arguments)) =>
            LET results == parsed.state.tool_results
                messages == parsed.state.messages
            IN /\ Len(results) = 1
               /\ results[1].tool = get_tools[i]
               /\ results[1].input = tool_arguments
               /\ IsObservation(messages[Len(messages)])
               /\ messages[Len(messages)].content = TXT_ToolResult \o results[1].output

\* what a step may do to a run's transcript and which transcript its prompt is built from
TranscriptStep(r) ==
    LET old == state[r].messages
        new == state'[r].messages
    IN /\ IsPrefix(old, new)
       /\ (pc[r] = "reason" /\ pc'[r] = "act") =>
             /\ Len(new) = Len(old) + 1
             /\ new[Len(new)].type = "ai"
       /\ (pc[r] = "reason" /\ pc'[r] # "act") => new = old
       /\ (pc[r] = "act") =>
             \/ new = old
             \/ /\ Len(new) = Len(old) + 1
                /\ IsObservation(new[Len(new)])
                /\ old[Len(old)].type = "ai"
                /\ truthy(RequestedCall(r)[1])
       /\ (pc[r] \notin {"reason", "act"}) => new = old
       /\ (calls'[r] # calls[r] /\ calls'[r][Len(calls'[r])].kind = "llm") =>
             calls'[r][Len(calls'[r])].prompt.messages = old

\* every observation of a run so far is in the prompt of its latest model call, unless
\* ACT has appended one since
ObservationsInPrompt(r) ==
    (calls[r] # <<>> /\ calls[r][Len(calls[r])].kind = "llm") =>
        \A i \in 1..Len(state[r].messages) :
            IsObservation(state[r].messages[i]) =>
                /\ i <= Len(calls[r][Len(calls[r])].prompt.messages)
                /\ calls[r][Len(calls[r])].prompt.messages[i] = state[r].messages[i]

\* C17: the transcript only grows at its end: REASON appends one assistant entry, ACT at
\* most one "Tool result: " entry right after the assistant entry that asked for the
\* tool, no other step touches it; and each REASON and FINAL_ANSWER prompt is built from
\* the whole transcript so far, every earlier observation included.
C17_TranscriptAppendOnly ==
    /\ [][\A r \in Runs : TranscriptStep(r)]_vars
    /\ [](\A r \in Runs : ObservationsInPrompt(r))

\* a run whose second REASON and whose FINAL_ANSWER were both prompted with the
\* observation of its first ACT
C17_Witness ==
    \E r \in Runs :
        /\ pc[r] = "END"
        /\ Len(calls[r]) >= 5
        /\ IsObservation(state[r].messages[3])
        /\ calls[r][3].kind = "llm" /\ calls[r][3].node = "reason"
        /\ calls[r][3].prompt.messages[3] = state[r].messages[3]
        /\ calls[r][Len(calls[r])].node = "final_answer"
        /\ calls[r][Len(calls[r])].prompt.messages = state[r].messages

\* what DECIDE, and ACT on a reply that asks for no tool, leave alone
FrameStep(r) ==
    /\ state'[r].max_steps = state[r].max_steps
    /\ pc[r] = "should_continue" =>
          /\ state'[r] = state[r]
          /\ calls'[r] = calls[r]
          /\ pc'[r] \in {pc[r],
                         IF state[r].current_step < state[r].max_steps
                         THEN "reason" ELSE "final_answer"}
    /\ (pc[r] = "act" /\ ~ truthy(RequestedCall(r)[1])) =>
          /\ state'[r].messages = state[r].messages
          /\ state'[r].tool_results = state[r].tool_results
          /\ state'[r].current_step = state[r].current_step
          /\ state'[r].final_answer = state[r].final_answer

\* C18: DECIDE changes none of messages, current_step, max_steps, tool_results and
\* final_answer, and goes on to REASON if current_step < max_steps and to FINAL_ANSWER
\* otherwise; ACT on a reply that asks for no tool leaves messages, tool_results,
\* current_step and final_answer as REASON left them; no step changes max_steps.
C18_Frames == [][\A r \in Runs : FrameStep(r)]_vars

\* a run back in REASON after an ACT that found no tool call and a DECIDE
C18_Witness ==
    \E r \in Runs :
        /\ pc[r] = "reason"
        /\ state[r].current_step = 1
        /\ Len(state[r].messages) = 2
        /\ state[r].messages[2] = AIMessage(TXT_ReplyDirect)
        /\ state[r].tool_results = <<>>

IsFinalCall(c) == c.kind = "llm" /\ c.node = "final_answer"

\* final_answer is set in END and nowhere else, by the run's one final-answer call, which
\* is its last call
FinalAnswerAtEnd ==
    \A r \in Runs :
        /\ pc[r] \in {"reason", "act", "should_continue", "final_answer"} =>
              /\ state[r].final_answer = None
              /\ Count(calls[r], IsFinalCall) = 0
        /\ pc[r] = "raised" => state[r].final_answer = None
        /\ pc[r] = "END" =>
              /\ state[r].final_answer # None
              /\ Count(calls[r], IsFinalCall) = 1
              /\ IsFinalCall(calls[r][Len(calls[r])])
              /\ calls[r][Len(calls[r])].ok

\* a run that has ended takes no further step
EndIsFinal == \A r \in Runs : pc[r] = "END" => RunView(r)' = RunView(r)

\* C19: final_answer is unset while a run is in REASON, ACT or DECIDE and until
\* FINAL_ANSWER has run; a run that ended has made exactly one final-answer model call,
\* its last call; and once final_answer is set the run makes no further step or call.
C19_FinalAnswerOnce == []FinalAnswerAtEnd /\ [][EndIsFinal]_vars

\* a run that went through two cycles and ended with its answer, beside a run still at
\* work
C19_Witness ==
    \E r, s \in Runs :
        /\ pc[r] = "END"
        /\ state[r].current_step = 2
        /\ state[r].final_answer = TXT_ReplyFinal
        /\ pc[s] = "act"

\* every REASON iteration a run has started found current_step <= max_steps
ReasonWithinLimit ==
    \A r \in Runs : \A i \in 1..Len(calls[r]) :
        (calls[r][i].kind = "llm" /\ calls[r][i].node = "reason") =>
            calls[r][i].prompt.current_step <= calls[r][i].prompt.max_steps

\* REASON, when its model call returns, adds one to current_step; no other step changes it
StepCounted ==
    \A r \in Runs :
        state'[r].current_step =
            IF pc[r] = "reason" /\ pc'[r] = "act" THEN state[r].current_step + 1
            ELSE state[r].current_step

\* C20: for every integer max_steps a run is started with, and current_step starting at
\* 0, each REASON iteration starts with current_step <= max_steps; current_step goes up
\* by exactly one per REASON iteration and is changed by no other step.
C20_StepWithinLimit == []ReasonWithinLimit /\ [][StepCounted]_vars

====
